---- MODULE Spec2Model ----
(***************************************************************************)
(* The AI Voice API of src/main.py: the handlers of POST /api/tts,         *)
(* GET/POST /api/voices and GET /api/jobs, run by a request-handling       *)
(* runtime that serves several requests in parallel, over a document       *)
(* store (collections "voice" and "ttsjob"), an output directory of        *)
(* generated audio files and the wall clock.                               *)
(***************************************************************************)
EXTENDS Integers, Sequences, FiniteSets, TLC

\* ------------------------------------------------------------------ bounds
\* Requests served in one run (one slot per request, in arrival order).
MaxReqs == 3
\* Synthesis requests served in one run of SpecTts, where their bodies vary.
MaxTts == 2
\* The wall clock runs over 0..MaxClock microseconds.
MaxClock == 1
\* Explicit ?limit= values run over 1..MaxLimit.
MaxLimit == 2

\* ------------------------------------------------------- program constants
MIN_LENGTH == 1
MAX_LENGTH == 2000
DefaultLimit == 20

\* Python's None, and a field that a request body leaves out.
None == "None"
\* No file name yet (the handler has not reached file-name generation).
NoFile == <<>>

Reqs == 1..MaxReqs
TtsReqs == 1..MaxTts

\* --------------------------------------------------------------- inputs
\* Texts are sequences of characters; " " stands for any whitespace.
Whitespace == {" "}

\* JSON bodies of POST /api/tts: empty and whitespace-only texts, no text at
\* all, and texts to speak with the optional fields left out, set to
\* non-default values, or set to empty strings.
TTSBodies ==
    {[text |-> <<>>],
     [text |-> <<" ">>],
     [text |-> <<" ", " ">>, language |-> "fr"],
     [language |-> "fr"],
     [text |-> <<"a">>],
     [text |-> <<" ", "a", " ">>, voice_id |-> "v1", language |-> "fr", format |-> "wav"],
     [text |-> <<"a", " ">>, language |-> "", format |-> ""]}

\* JSON bodies of POST /api/voices.
VoiceBodies ==
    {[name |-> "Zed", language |-> "en"],
     [name |-> "Zed", language |-> "en", avatar_url |-> "https://a.example/z.png"],
     [name |-> "Zed", language |-> "en", avatar_url |-> "not a url"],
     [name |-> "Zed"],
     [language |-> "en"],
     [description |-> "nameless"]}

\* Query strings of GET /api/jobs, as sets of <<parameter, value>>: no
\* parameter, or ?limit=n with a positive n.
JobsQueries == {{}} \cup {{<<"limit", n>>} : n \in 1..MaxLimit}

Get(body, f, default) == IF f \in DOMAIN body THEN body[f] ELSE default

\* ------------------------------------------------------------- schemas.py
\* pydantic's validation of a body as TTSJob: text required, 1..2000 long.
ValidTTSJob(body) ==
    /\ "text" \in DOMAIN body
    /\ Len(body.text) >= MIN_LENGTH
    /\ Len(body.text) <= MAX_LENGTH

\* The TTSJob pydantic builds: defaults filled in.
TTSJob(body) ==
    [text     |-> body.text,
     voice_id |-> Get(body, "voice_id", None),
     language |-> Get(body, "language", "en"),
     format   |-> Get(body, "format", "mp3")]

\* pydantic's HttpUrl.
IsHttpUrl(u) == u \in {"https://a.example/z.png"}

\* pydantic's validation of a body as Voice: name and language required.
ValidVoice(body) ==
    /\ "name" \in DOMAIN body
    /\ "language" \in DOMAIN body
    /\ ("avatar_url" \in DOMAIN body => IsHttpUrl(body.avatar_url))

Voice(body) ==
    [name        |-> body.name,
     description |-> Get(body, "description", None),
     language    |-> body.language,
     avatar_url  |-> Get(body, "avatar_url", None),
     samples     |-> <<>>]

\* ---------------------------------------------------------- pure helpers
RECURSIVE lstrip(_)
lstrip(s) ==
    IF s = <<>> THEN s
    ELSE IF Head(s) \in Whitespace THEN lstrip(Tail(s)) ELSE s

RECURSIVE rstrip(_)
rstrip(s) ==
    IF s = <<>> THEN s
    ELSE IF s[Len(s)] \in Whitespace THEN rstrip(SubSeq(s, 1, Len(s) - 1)) ELSE s

\* strip() forgotten: the text is used as given.
strip_forgotten(s) == s

\* job.text.strip()
strip(s) == rstrip(lstrip(s))

\* x or default, for strings
OrDefault(x, default) == IF x = "" \/ x = None THEN default ELSE x

\* str.lower() on the format strings of the inputs
lower(s) == IF s = "MP3" THEN "mp3" ELSE IF s = "WAV" THEN "wav" ELSE s

\* datetime.utcnow().strftime("%Y%m%d%H%M%S%f"): the digits of the clock's
\* reading, to the microsecond.
strftime(t) == ToString(t)

Ext(format) == IF lower(OrDefault(format, "mp3")) = "mp3" THEN "mp3" ELSE "mp3"

FName(ts, ext) == <<"tts_", ts, ".", ext>>

AudioUrl(fname) == <<"/generated/">> \o fname

\* datetime.utcnow().isoformat(): the clock's reading in ISO 8601 form.
isoformat(t) == <<"T", ToString(t)>>

\* The static mount: the file of the output directory a URL is served from.
ServedFile(url) == IF url # <<>> /\ Head(url) = "/generated/" THEN Tail(url) ELSE NoFile

FNames == {FName(strftime(t), "mp3") : t \in 0..MaxClock}


\* ------------------------------------------------------------------ state
VARIABLES
    now,       \* the wall clock, in microseconds
    db,        \* database.db is not None (set once, at import)
    files,     \* the output directory: file name -> "absent" | "open" | "written"
    ttsjob,    \* collection "ttsjob", in insertion order
    voice,     \* collection "voice", in insertion order
    nextId,    \* the store's next ObjectId
    req,       \* per request: the handler's position and locals, then its response
    ttsCalls,  \* per request: how often it invoked the TTS engine
    inserts    \* per request: how many documents it inserted

vars == <<now, db, files, ttsjob, voice, nextId, req, ttsCalls, inserts>>

Idle ==
    [kind |-> None, pc |-> "idle", body |-> {}, text |-> <<>>, fname |-> NoFile,
     exc |-> None, store |-> None, status |-> 0, resp |-> {}]

Init ==
    /\ now = 0
    /\ db \in BOOLEAN
    /\ files = [f \in FNames |-> "absent"]
    /\ ttsjob = <<>>
    /\ voice = <<>>
    /\ nextId = 1
    /\ req = [r \in Reqs |-> Idle]
    /\ ttsCalls = [r \in Reqs |-> 0]
    /\ inserts = [r \in Reqs |-> 0]

\* Requests take their slots in arrival order.
Arrives(r) == req[r].pc = "idle" /\ (IF r = 1 THEN TRUE ELSE req[r - 1].pc # "idle")

\* The handler returns or raises HTTPException: the response is sent.
Respond(slot, status, resp) ==
    [slot EXCEPT !.pc = "done", !.status = status, !.resp = resp]

\* The clock advances.
Tick ==
    /\ now < MaxClock
    /\ now' = now + 1
    /\ UNCHANGED <<db, files, ttsjob, voice, nextId, req, ttsCalls, inserts>>

\* ------------------------------------------------------------ database.py
\* str(ObjectId)
IdStr(oid) == ToString(oid)

\* create_document(collection, data) on a reachable store: the document as
\* stored, with the id the store assigns.
create_document(doc, oid) == [d \in DOMAIN doc \cup {"_id"} |-> IF d = "_id" THEN oid ELSE doc[d]]

\* get_documents(collection) on a reachable store: the collection's
\* documents, in insertion order.
get_documents_all(coll) == coll

\* get_documents(collection, limit=limit) on a reachable store: up to limit
\* documents, in insertion order.
get_documents(coll, limit) == SubSeq(coll, 1, IF Len(coll) < limit THEN Len(coll) ELSE limit)

\* ------------------------------------------------------ POST /api/tts
\* Body validation, strip, the empty-text check and the file name.
synthesize_speech_begin(r, body) ==
    /\ Arrives(r)
    /\ LET slot == [Idle EXCEPT !.kind = "tts", !.body = body] IN
       IF ~ValidTTSJob(body)
       THEN req' = [req EXCEPT ![r] = Respond(slot, 422, [detail |-> "validation error"])]
       ELSE LET job  == TTSJob(body)
                text == strip(job.text)
            IN IF text = <<>>
               THEN req' = [req EXCEPT ![r] =
                               Respond(slot, 400, [detail |-> "Text is required"])]
               ELSE req' = [req EXCEPT ![r] =
                               [slot EXCEPT !.pc = "tts", !.text = text,
                                    !.fname = FName(strftime(now), Ext(job.format))]]
    /\ UNCHANGED <<now, db, files, ttsjob, voice, nextId, ttsCalls, inserts>>

\* The engine's error is swallowed and the handler goes on to persist.
OnTtsErrorSwallowed(slot) == [slot EXCEPT !.exc = "tts", !.pc = "persist"]

\* The engine's error makes the handler call the engine again.
OnTtsErrorRetried(slot) == [slot EXCEPT !.exc = "tts", !.pc = "tts"]

\* except Exception as e: raise HTTPException(500, "TTS error: ...")
OnTtsError(slot) ==
    Respond([slot EXCEPT !.exc = "tts"], 500, [detail |-> "TTS error"])

\* gTTS(text, lang) and tts.save(fpath) up to opening the file for writing:
\* the engine raises (nothing touched), or the file is created or truncated.
synthesize_speech_gTTS(r) ==
    /\ req[r].kind = "tts" /\ req[r].pc = "tts"
    /\ ttsCalls' = [ttsCalls EXCEPT ![r] = @ + 1]
    /\ \E raises \in BOOLEAN :
         IF raises
         THEN /\ req' = [req EXCEPT ![r] = OnTtsError(@)]
              /\ files' = files
         ELSE /\ req' = [req EXCEPT ![r].pc = "saving"]
              /\ files' = [files EXCEPT ![req[r].fname] = "open"]
    /\ UNCHANGED <<now, db, ttsjob, voice, nextId, inserts>>

\* tts.save(fpath), the rest: the audio is fetched and written, or the
\* engine raises and leaves the file as it is.
synthesize_speech_save(r) ==
    /\ req[r].kind = "tts" /\ req[r].pc = "saving"
    /\ \E raises \in BOOLEAN :
         IF raises
         THEN /\ req' = [req EXCEPT ![r] = OnTtsError(@)]
              /\ files' = files
         ELSE /\ req' = [req EXCEPT ![r].pc = "persist"]
              /\ files' = [files EXCEPT ![req[r].fname] = "written"]
    /\ UNCHANGED <<now, db, ttsjob, voice, nextId, ttsCalls, inserts>>

\* The document built from the text as received, not as trimmed.
JobDocUntrimmed(job, text, audio_url) ==
    [text      |-> job.text,
     voice_id  |-> job.voice_id,
     language  |-> OrDefault(job.language, "en"),
     format    |-> OrDefault(job.format, "mp3"),
     status    |-> "completed",
     audio_url |-> audio_url]

\* The document of the job.
JobDoc(job, text, audio_url) ==
    [text      |-> text,
     voice_id  |-> job.voice_id,
     language  |-> OrDefault(job.language, "en"),
     format    |-> OrDefault(job.format, "mp3"),
     status    |-> "completed",
     audio_url |-> audio_url]

TTSResponse(job_id, job, text, audio_url, created_at) ==
    [id         |-> job_id,
     text       |-> text,
     voice_id   |-> job.voice_id,
     language   |-> OrDefault(job.language, "en"),
     format     |-> OrDefault(job.format, "mp3"),
     status     |-> "completed",
     audio_url  |-> audio_url,
     created_at |-> created_at]

\* The insert's error fails the request.
OnInsertErrorRaised(slot, job, text, audio_url, created_at) ==
    Respond([slot EXCEPT !.exc = "db"], 500, [detail |-> "store error"])

\* except Exception: job_id = ""
OnInsertError(slot, job, text, audio_url, created_at) ==
    Respond([slot EXCEPT !.exc = "db"], 200,
            TTSResponse("", job, text, audio_url, created_at))

\* audio_url, the insert of the job (which the store takes or fails) and
\* the response.
synthesize_speech_persist(r) ==
    /\ req[r].kind = "tts" /\ req[r].pc = "persist"
    /\ LET job       == TTSJob(req[r].body)
           text      == req[r].text
           audio_url == AudioUrl(req[r].fname)
           doc       == JobDoc(job, text, audio_url)
       IN \E ok \in BOOLEAN :
            IF db /\ ok
            THEN /\ ttsjob' = Append(ttsjob, create_document(doc, nextId))
                 /\ nextId' = nextId + 1
                 /\ inserts' = [inserts EXCEPT ![r] = @ + 1]
                 /\ req' = [req EXCEPT ![r] =
                              Respond(@, 200, TTSResponse(IdStr(nextId), job, text,
                                                          audio_url, isoformat(now)))]
            ELSE /\ req' = [req EXCEPT ![r] =
                              OnInsertError(@, job, text, audio_url, isoformat(now))]
                 /\ UNCHANGED <<ttsjob, nextId, inserts>>
    /\ UNCHANGED <<now, db, files, voice, ttsCalls>>

\* ------------------------------------------------------------- voices
DEFAULT_VOICES ==
    <<[name |-> "Nova", description |-> "Warm, clear American English voice",
       language |-> "en", avatar_url |-> "https://images.unsplash.com/photo-1544005313-94ddf0286df2"],
      [name |-> "Aria", description |-> "Natural British English voice",
       language |-> "en-GB", avatar_url |-> "https://images.unsplash.com/photo-1547425260-76bcadfb4f2c"],
      [name |-> "Sora", description |-> "Smooth Japanese voice",
       language |-> "ja", avatar_url |-> "https://images.unsplash.com/photo-1545996124-0501ebae84d0"],
      [name |-> "Mateo", description |-> "Crisp Spanish voice",
       language |-> "es", avatar_url |-> "https://images.unsplash.com/photo-1527980965255-d3b416303d12"]>>

\* What a call of get_documents meets: the store answers ("up"), is
\* unavailable and the gateway returns nothing ("down"), or the call raises.
StoreOutcomes == IF db THEN {"up", "down", "raise"} ELSE {"down", "raise"}

\* v.pop("_id", None)
PopId(doc) == [d \in DOMAIN doc \ {"_id"} |-> doc[d]]

\* response_model=List[VoiceSchema]: each entry serialized as a Voice.
VoicesOut(vs) == [i \in 1..Len(vs) |-> Voice(vs[i])]

\* list_voices without "if not voices: return DEFAULT_VOICES".
list_voices_no_fallback(store) ==
    IF db /\ store = "raise"
    THEN DEFAULT_VOICES
    ELSE LET found == IF db /\ store = "up" THEN get_documents_all(voice) ELSE <<>>
         IN [i \in 1..Len(found) |-> PopId(found[i])]

\* The body of list_voices: store is what get_documents met.
list_voices_returns(store) ==
    IF db /\ store = "raise"
    THEN DEFAULT_VOICES
    ELSE LET found  == IF db /\ store = "up" THEN get_documents_all(voice) ELSE <<>>
             voices == [i \in 1..Len(found) |-> PopId(found[i])]
         IN IF voices = <<>> THEN DEFAULT_VOICES ELSE voices

\* GET /api/voices
list_voices(r) ==
    /\ Arrives(r)
    /\ \E store \in (IF db THEN StoreOutcomes ELSE {None}) :
         req' = [req EXCEPT ![r] =
                   Respond([Idle EXCEPT !.kind = "list_voices", !.store = store],
                           200, VoicesOut(list_voices_returns(store)))]
    /\ UNCHANGED <<now, db, files, ttsjob, voice, nextId, ttsCalls, inserts>>

\* The insert's error is swallowed and an empty id returned.
OnCreateVoiceErrorSwallowed(slot) == Respond([slot EXCEPT !.exc = "db"], 200, "")

\* except Exception as e: raise HTTPException(500, str(e))
OnCreateVoiceError(slot) ==
    Respond([slot EXCEPT !.exc = "db"], 500, [detail |-> "store error"])

\* POST /api/voices
create_voice(r, body) ==
    /\ Arrives(r)
    /\ LET slot == [Idle EXCEPT !.kind = "create_voice", !.body = body] IN
       IF ~ValidVoice(body)
       THEN /\ req' = [req EXCEPT ![r] =
                         Respond(slot, 422, [detail |-> "validation error"])]
            /\ UNCHANGED <<voice, nextId, inserts>>
       ELSE \E ok \in BOOLEAN :
              IF db /\ ok
              THEN /\ voice' = Append(voice, create_document(Voice(body), nextId))
                   /\ nextId' = nextId + 1
                   /\ inserts' = [inserts EXCEPT ![r] = @ + 1]
                   /\ req' = [req EXCEPT ![r] = Respond(slot, 200, IdStr(nextId))]
              ELSE /\ req' = [req EXCEPT ![r] = OnCreateVoiceError(slot)]
                   /\ UNCHANGED <<voice, nextId, inserts>>
    /\ UNCHANGED <<now, db, files, ttsjob, ttsCalls>>

\* --------------------------------------------------------------- jobs
\* The query's limit is not passed on.
JobsLimitIgnored(query) == DefaultLimit

\* limit: int = 20
JobsLimit(query) ==
    IF \E p \in query : p[1] = "limit"
    THEN (CHOOSE p \in query : p[1] = "limit")[2]
    ELSE DefaultLimit

\* if "_id" in j: j["id"] = str(j.pop("_id"))
SerializeId(j) ==
    IF "_id" \in DOMAIN j
    THEN [d \in (DOMAIN j \ {"_id"}) \cup {"id"} |-> IF d = "id" THEN IdStr(j["_id"]) ELSE j[d]]
    ELSE j

\* The body of list_jobs: store is what get_documents met.
list_jobs_returns(query, store) ==
    IF store = "raise"
    THEN <<>>
    ELSE LET jobs == IF store = "up" THEN get_documents(ttsjob, JobsLimit(query)) ELSE <<>>
         IN [i \in 1..Len(jobs) |-> SerializeId(jobs[i])]

\* GET /api/jobs
list_jobs(r, query) ==
    /\ Arrives(r)
    /\ \E store \in StoreOutcomes :
         req' = [req EXCEPT ![r] =
                   Respond([Idle EXCEPT !.kind = "list_jobs", !.body = query,
                                 !.store = store],
                           200, list_jobs_returns(query, store))]
    /\ UNCHANGED <<now, db, files, ttsjob, voice, nextId, ttsCalls, inserts>>

\* ------------------------------------------------------- specifications
\* Synthesis requests in parallel, over every body of TTSBodies.
NextTts ==
    \/ Tick
    \/ \E r \in TtsReqs, body \in TTSBodies : synthesize_speech_begin(r, body)
    \/ \E r \in TtsReqs : synthesize_speech_gTTS(r)
    \/ \E r \in TtsReqs : synthesize_speech_save(r)
    \/ \E r \in TtsReqs : synthesize_speech_persist(r)

SpecTts == Init /\ [][NextTts]_vars

\* Registrations and listings of voices in parallel.
NextVoices ==
    \/ \E r \in Reqs : list_voices(r)
    \/ \E r \in Reqs, body \in VoiceBodies : create_voice(r, body)

SpecVoices == Init /\ [][NextVoices]_vars

\* Synthesis requests of one plain body and listings of the jobs in parallel.
NextJobs ==
    \/ Tick
    \/ \E r \in Reqs : synthesize_speech_begin(r, [text |-> <<"a">>])
    \/ \E r \in Reqs : synthesize_speech_gTTS(r)
    \/ \E r \in Reqs : synthesize_speech_save(r)
    \/ \E r \in Reqs : synthesize_speech_persist(r)
    \/ \E r \in Reqs, query \in JobsQueries : list_jobs(r, query)

SpecJobs == Init /\ [][NextJobs]_vars

\* ------------------------------------------------------------ properties
IsTts(r) == req[r].kind = "tts"
Done(r) == req[r].pc = "done"

\* A body whose text is empty or consists only of whitespace.
BlankText(body) ==
    /\ "text" \in DOMAIN body
    /\ \A i \in 1..Len(body.text) : body.text[i] \in Whitespace

\* The file is present in the output directory.
FileExists(f) == f \in DOMAIN files /\ files[f] # "absent"

\* The positions of collection "ttsjob" that hold the record of this id.
JobsWithId(id) == {i \in 1..Len(ttsjob) : IdStr(ttsjob[i]["_id"]) = id}

\* C1: every record of "ttsjob" with status "completed" has its audio file
\* present under the output directory, whatever the requests before did; a
\* request that inserted its record did so after writing its file, and a
\* record's audio_url names the file of the request that inserted it.
C1_CompletedJobHasFile ==
    /\ \A i \in 1..Len(ttsjob) :
         ttsjob[i].status = "completed" => FileExists(ServedFile(ttsjob[i].audio_url))
    /\ \A r \in Reqs :
         inserts[r] > 0 =>
            /\ FileExists(req[r].fname)
            /\ \E i \in 1..Len(ttsjob) :
                 /\ ServedFile(ttsjob[i].audio_url) = req[r].fname
                 /\ IdStr(ttsjob[i]["_id"]) = req[r].resp.id

\* C1's case: a record is persisted after another request failed in the engine
\* with its file already created.
C1_Witness ==
    /\ Len(ttsjob) >= 1
    /\ \E r \in Reqs : IsTts(r) /\ req[r].exc = "tts" /\ FileExists(req[r].fname)

\* C2: a request whose text is empty or whitespace-only never invokes the TTS
\* engine, never gets a file name to write to and inserts no record; while
\* only such requests have arrived, the output directory and "ttsjob" are as
\* they were.
C2_BlankTextNeverSynthesized ==
    /\ \A r \in Reqs :
         IsTts(r) /\ BlankText(req[r].body) =>
            /\ ttsCalls[r] = 0
            /\ inserts[r] = 0
            /\ req[r].fname = NoFile
            /\ Done(r)
            /\ req[r].status # 200
    /\ (\A r \in Reqs : req[r].pc # "idle" => IsTts(r) /\ BlankText(req[r].body))
         => /\ \A f \in DOMAIN files : files[f] = "absent"
            /\ ttsjob = <<>>

\* C2's case: a whitespace-only request and an empty one were both answered.
C2_Witness ==
    /\ \E r \in Reqs : IsTts(r) /\ Done(r) /\ req[r].body = [text |-> <<" ">>]
    /\ \E r \in Reqs : IsTts(r) /\ Done(r) /\ req[r].body = [text |-> <<>>]

\* C3: POST /api/tts with empty or whitespace-only text is answered with
\* status 400.
C3_BlankTextIs400 ==
    \A r \in Reqs :
        IsTts(r) /\ Done(r) /\ BlankText(req[r].body) => req[r].status = 400

\* C4: any two requests that reached file-name generation have distinct file
\* names (and so distinct audio_urls).
C4_DistinctFilenames ==
    \A r1, r2 \in Reqs :
        r1 # r2 /\ req[r1].fname # NoFile /\ req[r2].fname # NoFile
            => /\ req[r1].fname # req[r2].fname
               /\ AudioUrl(req[r1].fname) # AudioUrl(req[r2].fname)

\* C5: when the TTS engine raises, the request ends with status 500, the
\* engine was invoked exactly once for it, and it inserted no record.
C5_TtsErrorIs500NoRetryNoRecord ==
    \A r \in Reqs :
        IsTts(r) /\ req[r].exc = "tts" =>
            /\ Done(r)
            /\ req[r].status = 500
            /\ ttsCalls[r] = 1
            /\ inserts[r] = 0

\* C5's case: the engine raised before touching the file for one request and
\* after creating it for another.
C5_Witness ==
    /\ \E r \in Reqs : IsTts(r) /\ req[r].exc = "tts" /\ files[req[r].fname] = "absent"
    /\ \E r \in Reqs : IsTts(r) /\ req[r].exc = "tts" /\ files[req[r].fname] = "open"

\* C6: a request whose insert failed is still answered 200 with id "" and
\* status "completed"; every 200 response carries an audio_url whose file is
\* present in the output directory.
C6_InsertFailureStillAnswers ==
    \A r \in Reqs :
        IsTts(r) =>
            /\ req[r].exc = "db" =>
                 /\ Done(r)
                 /\ req[r].status = 200
                 /\ req[r].resp.id = ""
            /\ Done(r) /\ req[r].status = 200 =>
                 /\ req[r].resp.status = "completed"
                 /\ req[r].resp.audio_url = AudioUrl(req[r].fname)
                 /\ FileExists(ServedFile(req[r].resp.audio_url))

\* C6's case: a request was answered after its insert failed, on a database
\* that was connected.
C6_Witness ==
    \E r \in Reqs : IsTts(r) /\ Done(r) /\ req[r].exc = "db" /\ db

\* C7: GET /api/voices answers 200 with the stored voices (ids removed) when
\* the store answers and holds at least one voice, and with the 4-entry
\* fallback catalog in every other case.
C7_VoicesStoredOrFallback ==
    [][\A r \in Reqs :
         req[r].pc = "idle" /\ req'[r].kind = "list_voices" =>
            /\ req'[r].status = 200
            /\ req'[r].resp =
                 IF db /\ req'[r].store = "up" /\ voice # <<>>
                 THEN [i \in 1..Len(voice) |->
                         [f \in DOMAIN voice[i] \ {"_id"} |-> voice[i][f]]]
                 ELSE [i \in 1..4 |->
                         [name        |-> DEFAULT_VOICES[i].name,
                          description |-> DEFAULT_VOICES[i].description,
                          language    |-> DEFAULT_VOICES[i].language,
                          avatar_url  |-> DEFAULT_VOICES[i].avatar_url,
                          samples     |-> <<>>]]
            /\ Len(req'[r].resp) > 0
            /\ (db /\ req'[r].store = "up" /\ voice # <<>>
                  => req'[r].resp[1].name # DEFAULT_VOICES[1].name)]_vars

\* C7's case: one listing returned a registered voice, and a later one met an
\* unavailable store and returned the fallback.
C7_Witness ==
    \E r1, r2 \in Reqs :
        /\ r1 < r2
        /\ req[r1].kind = "list_voices" /\ req[r2].kind = "list_voices"
        /\ req[r1].resp[1].name = "Zed"
        /\ req[r2].store \in {"down", "raise"}
        /\ Len(req[r2].resp) = 4

\* C8: GET /api/jobs?limit=N (N = 20 without limit; N >= 1) answers 200 with
\* at most N records, exactly N when the store answers and holds at least N
\* jobs, all of them when it holds fewer; each is a distinct persisted job
\* with the store's id as field id; when the store fails, with no records.
C8_JobsLimited ==
    [][\A r \in Reqs :
         req[r].pc = "idle" /\ req'[r].kind = "list_jobs" =>
            LET q    == req'[r].body
                N    == IF q = {} THEN 20 ELSE (CHOOSE p \in q : TRUE)[2]
                resp == req'[r].resp
            IN /\ req'[r].status = 200
               /\ Len(resp) <= N
               /\ req'[r].store = "up" /\ Len(ttsjob) >= N => Len(resp) = N
               /\ req'[r].store = "up" /\ Len(ttsjob) < N => Len(resp) = Len(ttsjob)
               /\ req'[r].store # "up" => resp = <<>>
               /\ \A i \in 1..Len(resp) :
                    /\ "id" \in DOMAIN resp[i]
                    /\ "_id" \notin DOMAIN resp[i]
                    /\ \E j \in 1..Len(ttsjob) :
                         /\ resp[i].id = IdStr(ttsjob[j]["_id"])
                         /\ \A f \in DOMAIN ttsjob[j] \ {"_id"} : resp[i][f] = ttsjob[j][f]
               /\ \A i, k \in 1..Len(resp) : i # k => resp[i].id # resp[k].id]_vars

\* C8's case: with two jobs persisted, limit=1 returned one record.
C8_Witness ==
    \E r \in Reqs :
        /\ req[r].kind = "list_jobs" /\ req[r].body = {<<"limit", 1>>}
        /\ Len(req[r].resp) = 1
        /\ \A q \in 1..(r - 1) : IsTts(q) /\ Done(q) /\ inserts[q] = 1
        /\ r > 2

\* C9: POST /api/voices with a body that lacks name or language is rejected
\* as a validation error and inserts nothing; for a valid body a failure of
\* the insert is answered 500, and 200 is answered only with the voice
\* inserted.
C9_VoiceRejectedOrSurfaced ==
    /\ \A r \in Reqs :
         req[r].kind = "create_voice" =>
            /\ Done(r)
            /\ ("name" \notin DOMAIN req[r].body \/ "language" \notin DOMAIN req[r].body)
                 => req[r].status = 422 /\ inserts[r] = 0
            /\ req[r].exc = "db" => req[r].status = 500 /\ inserts[r] = 0
            /\ req[r].status = 200 =>
                 /\ inserts[r] = 1
                 /\ \E i \in 1..Len(voice) :
                      /\ IdStr(voice[i]["_id"]) = req[r].resp
                      /\ voice[i].name = req[r].body.name
                      /\ voice[i].language = req[r].body.language
    /\ (\A r \in Reqs : req[r].kind = "create_voice" => req[r].status # 200)
         => voice = <<>>

\* C9's case: a body without name was rejected, and a valid body met a
\* failing insert on a connected database.
C9_Witness ==
    /\ \E r \in Reqs : req[r].kind = "create_voice" /\ req[r].body = [language |-> "en"]
    /\ \E r \in Reqs : req[r].kind = "create_voice" /\ req[r].exc = "db" /\ db

\* C10: a request inserts at most one record; its 200 response has id "" if
\* and only if the insert failed; otherwise exactly one record is stored
\* under the returned id, with the response's text (the trimmed text of the
\* body), voice_id, language, format and audio_url, both with status
\* "completed".
C10_ResponseAgreesWithRecord ==
    \A r \in Reqs :
        IsTts(r) =>
            /\ inserts[r] <= 1
            /\ Done(r) /\ req[r].status = 200 =>
                 LET resp == req[r].resp IN
                 /\ resp.id = "" <=> req[r].exc = "db"
                 /\ resp.id = "" <=> inserts[r] = 0
                 /\ resp.status = "completed"
                 /\ resp.text # <<>>
                 /\ resp.text[1] \notin Whitespace
                 /\ resp.text[Len(resp.text)] \notin Whitespace
                 /\ \E i \in 1..Len(req[r].body.text) :
                      LET given == req[r].body.text
                          last  == i + Len(resp.text) - 1
                      IN /\ resp.text = SubSeq(given, i, last)
                         /\ \A k \in 1..Len(given) :
                              k < i \/ k > last => given[k] \in Whitespace
                 /\ resp.id # "" =>
                      /\ Cardinality(JobsWithId(resp.id)) = 1
                      /\ \A i \in JobsWithId(resp.id) :
                           /\ ttsjob[i].text = resp.text
                           /\ ttsjob[i].voice_id = resp.voice_id
                           /\ ttsjob[i].language = resp.language
                           /\ ttsjob[i].format = resp.format
                           /\ ttsjob[i].audio_url = resp.audio_url
                           /\ ttsjob[i].status = "completed"

\* C10's case: a request whose text had whitespace on both sides and whose
\* optional fields were set was persisted and answered.
C10_Witness ==
    \E r \in Reqs :
        /\ IsTts(r) /\ Done(r) /\ req[r].status = 200
        /\ req[r].body.text = <<" ", "a", " ">>
        /\ req[r].resp.id # ""
        /\ req[r].resp.format = "wav"

====
